---- MODULE Spec2Model ----
(***************************************************************************)
(* PointElevationUpdater (src/gis/PointElevationUpdater.py): assigns DEM   *)
(* elevations to point datasets and exports them as shapefile and GeoJSON. *)
(*                                                                         *)
(* Datasets are values [crs, recs]; GeoDataFrame objects live in `heap`    *)
(* and are referred to by their index, so that aliasing (the same object)  *)
(* and copying (a new object) are distinguished.  The wrapped libraries    *)
(* (geopandas, rasterio, os) are modelled by their documented behaviour at *)
(* the lines where the code calls them.                                    *)
(***************************************************************************)
EXTENDS Integers, Sequences, FiniteSets, TLC

VARIABLES
    dem,        \* self.dem: the opened raster
    heap,       \* the GeoDataFrame objects alive, by object number
    arg,        \* the object the caller passed to update_z_values
    gdf,        \* update_z_values' local gdf (an object number)
    elevations, \* update_z_values' local elevations
    new_geoms,  \* update_z_values' local new_geoms
    updated,    \* update_z_values' local updated (an object number, 0 = unset)
    D,          \* the value of the caller's dataset when update_z_values was called
    pc,         \* the statement about to run
    exc,        \* the exception in flight when pc = "raised"
    dirs,       \* the directories that exist
    files,      \* the files that exist and their contents
    folder,     \* process_folder's folder
    listing,    \* process_folder's files
    idx,        \* position of process_folder's loop in files
    shp_path,   \* process_shapefile's shp_path
    out_dir,    \* process_shapefile's out_dir
    top,        \* the method the caller called: "folder", "file" or "update"
    log,        \* the lines logged since the caller's latest call
    calls,      \* calls the caller has completed
    prev        \* the call the caller completed last, and how it ended

uzvars == <<heap, arg, gdf, elevations, new_geoms, updated, D>>
fsvars == <<dirs, files>>
drvars == <<folder, listing, idx, shp_path, out_dir, top, calls, prev>>
vars == <<dem, heap, arg, gdf, elevations, new_geoms, updated, D, pc, exc,
          dirs, files, folder, listing, idx, shp_path, out_dir, top, log, calls, prev>>

(* ------------------------------ bounds -------------------------------- *)
\* longest dataset given to update_z_values
MaxRecs == 2
\* number of driver calls the caller script makes
MaxCalls == 2

(* ------------------------------ values -------------------------------- *)
Undefined == "None"
WGS84 == "EPSG:4326"
Mercator == "EPSG:3857"
CRSs == {Undefined, WGS84, Mercator}

\* a sampled raster value: np.isfinite(z) is z.fin
Fin(v) == [fin |-> TRUE, val |-> v]
NaN == [fin |-> FALSE, val |-> 0]

\* shapely Point(x, y) and Point(x, y, z)
Point2(x, y) == [x |-> x, y |-> y, z |-> 0, hasZ |-> FALSE]
Point3(x, y, z) == [x |-> x, y |-> y, z |-> z, hasZ |-> TRUE]

\* a path: the directory part (its components) and the file name (its characters)
NoPath == [dir |-> <<>>, name |-> <<>>]
NoCall == [op |-> "none", path |-> NoPath, out |-> <<>>, ok |-> FALSE]
\* a line of the log
LogLine(msg, n, path) == [msg |-> msg, n |-> n, path |-> path]

Min(a, b) == IF a < b THEN a ELSE b

RECURSIVE Flatten(_)
\* np.array(elevations).flatten(): the per-coordinate arrays, concatenated
Flatten(arrs) == IF arrs = <<>> THEN <<>> ELSE Head(arrs) \o Flatten(Tail(arrs))

(* ------------------------ the DEM (rasterio) --------------------------- *)
\* dem.sample(coords): one array (one band) per coordinate, in order; a
\* coordinate outside the raster's extent yields the raster's nodata fill
DemSampleOne(d, c) == IF c \in DOMAIN d.cells THEN <<d.cells[c]>> ELSE <<d.fill>>
DemSample(d, coords) == [i \in DOMAIN coords |-> DemSampleOne(d, coords[i])]

(* --------------------- reprojection (geopandas) ------------------------ *)
\* easting of a CRS's origin in the model's common frame: the transform
\* between two different CRSs moves coordinates, between equal ones it does not
Shift(crs) == IF crs = Mercator THEN 1 ELSE 0
ToCrsGeom(g, from, to) == [g EXCEPT !.x = g.x + Shift(to) - Shift(from),
                                    !.y = g.y + 2 * (Shift(to) - Shift(from))]
\* GeoDataFrame.to_crs raises on naive geometries and on a missing target
CanToCrs(ds, target) == ds.crs # Undefined /\ target # Undefined
\* GeoDataFrame.to_crs(target): a new dataset, same records in the same order
ToCrs(ds, target) ==
    [crs |-> target,
     recs |-> [i \in DOMAIN ds.recs |->
                 [ds.recs[i] EXCEPT !.geom = ToCrsGeom(@, ds.crs, target)]]]

(* --------------------------- _ensure_same_crs -------------------------- *)
\* variant: the comparison left out, every dataset passed through
CrsDiffersNever(a, b) == FALSE
\* line 37: gdf.crs != self.dem.crs
CrsDiffers(a, b) == a # b

(* --------------------------- _sample_elevations ------------------------ *)
\* variant: (geom.y, geom.x)
CoordsSwapped(ds) == [i \in DOMAIN ds.recs |-> <<ds.recs[i].geom.y, ds.recs[i].geom.x>>]
\* line 44: coords = [(geom.x, geom.y) for geom in gdf.geometry]
Coords(ds) == [i \in DOMAIN ds.recs |-> <<ds.recs[i].geom.x, ds.recs[i].geom.y>>]
\* lines 46-55
SampleElevations(ds, d) == Flatten(DemSample(d, Coords(ds)))

(* ----------------------------- update_z_values ------------------------- *)
\* variant: a non-finite sample rebuilds the point as Point(geom.x, geom.y)
RewriteGeomFlat(geom, z) == IF z.fin THEN Point3(geom.x, geom.y, z.val)
                                     ELSE Point2(geom.x, geom.y)
\* variant: Point(geom.y, geom.x, float(z))
RewriteGeomSwapped(geom, z) == IF z.fin THEN Point3(geom.y, geom.x, z.val) ELSE geom
\* lines 66-69: one iteration of the rewriting loop
RewriteGeom(geom, z) == IF z.fin THEN Point3(geom.x, geom.y, z.val) ELSE geom
\* lines 64-69: zip stops at the shorter of the two sequences
NewGeoms(ds, elev) ==
    [i \in 1..Min(Len(ds.recs), Len(elev)) |-> RewriteGeom(ds.recs[i].geom, elev[i])]
\* line 72: updated.geometry = new_geoms
SetGeometry(ds, geoms) ==
    [ds EXCEPT !.recs = [i \in DOMAIN ds.recs |-> [ds.recs[i] EXCEPT !.geom = geoms[i]]]]

\* variant: updated = gdf, no copy
CopyAliased(h, id) == [heap |-> h, id |-> id]
\* line 71: gdf.copy() is a new object holding the same records
Copy(h, id) == [heap |-> Append(h, h[id]), id |-> Len(h) + 1]

\* line 59 / lines 35-40
UzEnsureSameCrs ==
    /\ pc = "uz_ensure"
    /\ IF CrsDiffers(heap[gdf].crs, dem.crs)
       THEN /\ log' = Append(log, LogLine("CRS mismatch", 0, NoPath))
            /\ IF CanToCrs(heap[gdf], dem.crs)
               THEN /\ heap' = Append(heap, ToCrs(heap[gdf], dem.crs))
                    /\ gdf' = Len(heap) + 1
                    /\ pc' = "uz_sample"
                    /\ UNCHANGED exc
               ELSE /\ pc' = "raised"
                    /\ exc' = "to_crs"
                    /\ UNCHANGED <<heap, gdf>>
       ELSE /\ pc' = "uz_sample"
            /\ UNCHANGED <<heap, gdf, log, exc>>
    /\ UNCHANGED <<dem, arg, elevations, new_geoms, updated, D, fsvars, drvars>>

\* line 62
UzSample ==
    /\ pc = "uz_sample"
    /\ elevations' = SampleElevations(heap[gdf], dem)
    /\ pc' = "uz_rewrite"
    /\ UNCHANGED <<dem, heap, arg, gdf, new_geoms, updated, D, fsvars, drvars, log, exc>>

\* lines 64-69
UzRewrite ==
    /\ pc = "uz_rewrite"
    /\ new_geoms' = NewGeoms(heap[gdf], elevations)
    /\ pc' = "uz_copy"
    /\ UNCHANGED <<dem, heap, arg, gdf, elevations, updated, D, fsvars, drvars, log, exc>>

\* lines 71-72
UzCopyAssign ==
    /\ pc = "uz_copy"
    /\ LET c == Copy(heap, gdf)
       IN /\ updated' = c.id
          /\ heap' = [c.heap EXCEPT ![c.id] = SetGeometry(@, new_geoms)]
    /\ pc' = "uz_returned"
    /\ UNCHANGED <<dem, arg, gdf, elevations, new_geoms, D, fsvars, drvars, log, exc>>

(* ------------------- update_z_values called on its own ----------------- *)
Attrs == {"p", "q"}
Geoms == {Point2(0, 0), Point2(1, 2), Point2(0, 1), Point2(5, 5), Point3(0, 0, 7)}
Records == [geom : Geoms, attr : Attrs]
SeqsUpTo(S, n) == UNION {[1..k -> S] : k \in 0..n}
Datasets == [crs : CRSs, recs : SeqsUpTo(Records, MaxRecs)]

Extent == {<<0, 0>>, <<1, 0>>, <<0, 1>>, <<1, 1>>, <<1, 2>>}
DemCells(hole) == [c \in Extent |-> IF c = hole THEN NaN ELSE Fin(100 + 10 * c[1] + c[2])]
DEMs == [crs : CRSs, cells : {DemCells(<<0, 0>>), DemCells(<<1, 2>>)}, fill : {NaN, Fin(0)}]

InitUpdate ==
    /\ dem \in DEMs
    /\ D \in Datasets
    /\ heap = <<D>>
    /\ arg = 1
    /\ gdf = 1
    /\ elevations = <<>>
    /\ new_geoms = <<>>
    /\ updated = 0
    /\ pc = "uz_ensure"
    /\ exc = "none"
    /\ folder = <<>>
    /\ dirs = {}
    /\ files = <<>>
    /\ listing = <<>>
    /\ idx = 0
    /\ shp_path = NoPath
    /\ out_dir = <<>>
    /\ top = "update"
    /\ log = <<>>
    /\ calls = 0
    /\ prev = NoCall

NextUpdate == UzEnsureSameCrs \/ UzSample \/ UzRewrite \/ UzCopyAssign

SpecUpdate == InitUpdate /\ [][NextUpdate]_vars

(* ------------------------- names and paths (os.path) ------------------- *)
\* str.lower() on the characters file names are made of here
LowerChar(c) == CASE c = "S" -> "s" [] c = "H" -> "h" [] c = "P" -> "p"
                  [] c = "B" -> "b" [] c = "Z" -> "z" [] OTHER -> c
Lower(s) == [i \in DOMAIN s |-> LowerChar(s[i])]
\* str.endswith
EndsWith(s, suffix) ==
    /\ Len(s) >= Len(suffix)
    /\ SubSeq(s, Len(s) - Len(suffix) + 1, Len(s)) = suffix
ShpExt == <<".", "s", "h", "p">>
GeojsonExt == <<".", "g", "e", "o", "j", "s", "o", "n">>

\* variant: f.endswith(".shp"), case kept
IsShapefileNameExact(f) == EndsWith(f, ShpExt)
\* line 105: f.lower().endswith(".shp")
IsShapefileName(f) == EndsWith(Lower(f), ShpExt)

\* os.path.join(dir, name), os.path.dirname, os.path.basename
Join(dir, name) == [dir |-> dir, name |-> name]
Dirname(path) == path.dir
Basename(path) == path.name
\* os.path.splitext(name)[0]: the name up to its last dot, dots that lead the
\* name apart
LastDot(s) == LET dots == {i \in DOMAIN s : s[i] = "."}
              IN IF dots = {} THEN 0 ELSE CHOOSE i \in dots : \A j \in dots : j <= i
SplitextRoot(s) == IF LastDot(s) > 0 /\ \E j \in 1..(LastDot(s) - 1) : s[j] # "."
                   THEN SubSeq(s, 1, LastDot(s) - 1) ELSE s

\* lines 96-98
Base(path) == SplitextRoot(Basename(path))
ShpOut(path, out) == Join(out, Base(path) \o <<"_", "Z">> \o ShpExt)
JsonOut(path, out) == Join(out, Base(path) \o <<"_", "Z">> \o GeojsonExt)

(* ------------------------------ the file system ------------------------ *)
\* os.listdir(folder): the names directly inside folder, files and directories
ListDir(ds, fs, f) ==
    {p.name : p \in {q \in DOMAIN fs : q.dir = f}}
    \cup {<<d[Len(d)]>> : d \in {e \in ds : Len(e) = Len(f) + 1 /\ SubSeq(e, 1, Len(f)) = f}}

\* os.makedirs(d, exist_ok=True) raises FileNotFoundError for d = ""
MakedirsRaises(d) == d = <<>>
\* os.makedirs(d, exist_ok=True): d and its missing parents
Makedirs(ds, d) == ds \cup {SubSeq(d, 1, k) : k \in 1..Len(d)}

VectorFile(driver, data) == [kind |-> "vector", driver |-> driver, data |-> data]
OtherFile == [kind |-> "other", driver |-> "none", data |-> [crs |-> Undefined, recs |-> <<>>]]

\* gpd.read_file(path) raises unless path is a readable vector file
Readable(fs, path) == path \in DOMAIN fs /\ fs[path].kind = "vector"

\* variant: to_file(..., mode="a") adds the records to an existing file
WriteFileAppend(fs, path, driver, data) ==
    [p \in DOMAIN fs \cup {path} |->
        IF p # path THEN fs[p]
        ELSE IF p \in DOMAIN fs /\ fs[p].kind = "vector"
             THEN VectorFile(driver, [data EXCEPT !.recs = fs[p].data.recs \o data.recs])
             ELSE VectorFile(driver, data)]
\* gdf.to_file(path, driver=...): the file is created or replaced
WriteFile(fs, path, driver, data) ==
    [p \in DOMAIN fs \cup {path} |-> IF p = path THEN VectorFile(driver, data) ELSE fs[p]]

(* --------------------------------- drivers ----------------------------- *)
Perms(S) == {l \in [1..Cardinality(S) -> S] : \A i, j \in DOMAIN l : l[i] = l[j] => i = j}

\* the locals of a call that has ended
Forget ==
    /\ heap' = <<>>
    /\ arg' = 0
    /\ gdf' = 0
    /\ elevations' = <<>>
    /\ new_geoms' = <<>>
    /\ updated' = 0
    /\ D' = [crs |-> Undefined, recs |-> <<>>]

\* The caller calls process_folder(f, out): lines 105-106.
CallProcessFolder(f, out) ==
    /\ pc = "idle"
    /\ calls < MaxCalls
    /\ top' = "folder"
    /\ folder' = f
    /\ out_dir' = out
    /\ shp_path' = NoPath
    /\ idx' = 1
    /\ IF f \in dirs
       THEN /\ \E l \in Perms({n \in ListDir(dirs, files, f) : IsShapefileName(n)}) :
                  /\ listing' = l
                  /\ log' = <<LogLine("Found", Len(l), NoPath)>>
            /\ pc' = "pf_loop"
            /\ exc' = "none"
       ELSE /\ listing' = <<>>
            /\ log' = <<>>
            /\ pc' = "raised"
            /\ exc' = "listdir"
    /\ UNCHANGED <<dem, uzvars, fsvars, calls, prev>>

\* lines 108-109: the loop takes the next file, or the method returns
PfLoop ==
    /\ pc = "pf_loop"
    /\ IF idx <= Len(listing)
       THEN /\ shp_path' = Join(folder, listing[idx])
            /\ pc' = "ps_read"
            /\ UNCHANGED <<uzvars, calls, prev>>
       ELSE /\ pc' = "idle"
            /\ calls' = calls + 1
            /\ prev' = [op |-> "folder", path |-> Join(folder, <<>>), out |-> out_dir, ok |-> TRUE]
            /\ Forget
            /\ UNCHANGED shp_path
    /\ UNCHANGED <<dem, fsvars, folder, listing, idx, out_dir, top, log, exc>>

\* The caller calls process_shapefile(path, out).
CallProcessShapefile(path, out) ==
    /\ pc = "idle"
    /\ calls < MaxCalls
    /\ top' = "file"
    /\ shp_path' = path
    /\ out_dir' = out
    /\ folder' = <<>>
    /\ listing' = <<>>
    /\ idx' = 0
    /\ log' = <<>>
    /\ pc' = "ps_read"
    /\ exc' = "none"
    /\ UNCHANGED <<dem, uzvars, fsvars, calls, prev>>

\* lines 91-94: log, read the file, call update_z_values on what was read
PsRead ==
    /\ pc = "ps_read"
    /\ log' = Append(log, LogLine("Processing", 0, shp_path))
    /\ IF Readable(files, shp_path)
       THEN /\ heap' = <<files[shp_path].data>>
            /\ D' = files[shp_path].data
            /\ arg' = 1
            /\ gdf' = 1
            /\ elevations' = <<>>
            /\ new_geoms' = <<>>
            /\ updated' = 0
            /\ pc' = "uz_ensure"
            /\ UNCHANGED exc
       ELSE /\ pc' = "raised"
            /\ exc' = "read_file"
            /\ UNCHANGED uzvars
    /\ UNCHANGED <<dem, fsvars, drvars>>

\* lines 96-100 and 76-80: export_shp(updated, shp_out)
PsExportShp ==
    /\ pc = "uz_returned"
    /\ top # "update"
    /\ LET shp_out == ShpOut(shp_path, out_dir)
       IN IF MakedirsRaises(Dirname(shp_out))
          THEN /\ pc' = "raised"
               /\ exc' = "makedirs"
               /\ UNCHANGED <<dirs, files, log>>
          ELSE /\ dirs' = Makedirs(dirs, Dirname(shp_out))
               /\ \/ /\ files' = WriteFile(files, shp_out, "ESRI Shapefile", heap[updated])
                     /\ log' = Append(log, LogLine("3D Shapefile exported", 0, shp_out))
                     /\ pc' = "ps_geojson"
                     /\ UNCHANGED exc
                  \/ /\ pc' = "raised"
                     /\ exc' = "to_file"
                     /\ UNCHANGED <<files, log>>
    /\ UNCHANGED <<dem, uzvars, drvars>>

\* lines 101 and 82-87: export_geojson(updated, json_out)
PsExportGeojson ==
    /\ pc = "ps_geojson"
    /\ LET json_out == JsonOut(shp_path, out_dir)
       IN IF MakedirsRaises(Dirname(json_out))
          THEN /\ pc' = "raised"
               /\ exc' = "makedirs"
               /\ UNCHANGED <<dirs, files, log>>
          ELSE /\ dirs' = Makedirs(dirs, Dirname(json_out))
               /\ IF ~CanToCrs(heap[updated], WGS84)
                  THEN /\ pc' = "raised"
                       /\ exc' = "to_crs"
                       /\ UNCHANGED <<files, log>>
                  ELSE \/ /\ files' = WriteFile(files, json_out, "GeoJSON",
                                                ToCrs(heap[updated], WGS84))
                          /\ log' = Append(log, LogLine("GeoJSON exported", 0, json_out))
                          /\ pc' = "ps_done"
                          /\ UNCHANGED exc
                       \/ /\ pc' = "raised"
                          /\ exc' = "to_file"
                          /\ UNCHANGED <<files, log>>
    /\ UNCHANGED <<dem, uzvars, drvars>>

\* process_shapefile returns: to the loop of process_folder, or to the caller
PsReturn ==
    /\ pc = "ps_done"
    /\ IF top = "folder"
       THEN /\ idx' = idx + 1
            /\ pc' = "pf_loop"
            /\ UNCHANGED <<calls, prev>>
       ELSE /\ pc' = "idle"
            /\ calls' = calls + 1
            /\ prev' = [op |-> "file", path |-> shp_path, out |-> out_dir, ok |-> TRUE]
            /\ UNCHANGED idx
    /\ Forget
    /\ UNCHANGED <<dem, fsvars, folder, listing, shp_path, out_dir, top, log, exc>>

\* what the caller sees of a call that raised
Failed == [op |-> top,
           path |-> IF top = "folder" THEN Join(folder, <<>>) ELSE shp_path,
           out |-> out_dir, ok |-> FALSE]

\* variant: the loop of process_folder catches the failure and goes on
PropagateSkipFile ==
    /\ pc = "raised"
    /\ top # "update"
    /\ IF top = "folder" /\ exc # "listdir"
       THEN /\ pc' = "pf_loop"
            /\ idx' = idx + 1
            /\ UNCHANGED <<calls, prev>>
       ELSE /\ pc' = "idle"
            /\ calls' = calls + 1
            /\ prev' = Failed
            /\ UNCHANGED idx
    /\ Forget
    /\ UNCHANGED <<dem, fsvars, folder, listing, shp_path, out_dir, top, log, exc>>

\* variant: a failing process_shapefile removes its output files
PropagateRollback ==
    /\ pc = "raised"
    /\ top # "update"
    /\ pc' = "idle"
    /\ calls' = calls + 1
    /\ prev' = Failed
    /\ Forget
    /\ files' = [p \in DOMAIN files \ {ShpOut(shp_path, out_dir), JsonOut(shp_path, out_dir)}
                   |-> files[p]]
    /\ UNCHANGED <<dem, dirs, folder, listing, idx, shp_path, out_dir, top, log, exc>>

\* Neither process_shapefile (lines 89-101) nor process_folder (lines 103-109)
\* catches anything: an exception ends the call and reaches the caller.
Propagate ==
    /\ pc = "raised"
    /\ top # "update"
    /\ pc' = "idle"
    /\ calls' = calls + 1
    /\ prev' = Failed
    /\ Forget
    /\ UNCHANGED <<dem, fsvars, folder, listing, idx, shp_path, out_dir, top, log, exc>>

(* ------------------------- the drivers' environment -------------------- *)
InDir == <<"in">>
EmptyDir == <<"empty">>
MissingDir == <<"missing">>
OutDirs == {<<>>, <<"out">>, <<"new", "z">>}
FileA == Join(InDir, <<"a", ".", "s", "h", "p">>)
FileB == Join(InDir, <<"B", ".", "S", "h", "P">>)
InputPaths == {FileA, FileB}
Rec(g, a) == [geom |-> g, attr |-> a]
DatasetsA == {[crs |-> c, recs |-> <<Rec(Point2(0, 0), "p"), Rec(Point2(5, 5), "q")>>] : c \in CRSs}
ContentsB == {OtherFile, VectorFile("ESRI Shapefile", [crs |-> Mercator, recs |-> <<Rec(Point3(0, 0, 7), "q")>>])}
DriverDEMs == {d \in DEMs : d.cells = DemCells(<<1, 2>>) /\ d.fill = NaN}

InitialFiles(a, b) ==
    LET fs == {<<FileA, VectorFile("ESRI Shapefile", a)>>,
               <<FileB, b>>,
               <<Join(InDir, <<"a", ".", "s", "h", "x">>), OtherFile>>,
               <<Join(InDir, <<"s", "h", "p">>), OtherFile>>,
               <<Join(<<"in", "sub">>, <<"d", ".", "s", "h", "p">>), VectorFile("ESRI Shapefile", a)>>,
               <<Join(EmptyDir, <<"a", ".", "s", "h", "x">>), OtherFile>>,
               <<Join(EmptyDir, <<"s", "h", "p">>), OtherFile>>,
               <<Join(<<"empty", "sub">>, <<"e", ".", "s", "h", "p">>), VectorFile("ESRI Shapefile", a)>>}
    IN [p \in {e[1] : e \in fs} |-> (CHOOSE e \in fs : e[1] = p)[2]]

InitDriver ==
    /\ dem \in DriverDEMs
    /\ \E a \in DatasetsA, b \in ContentsB : files = InitialFiles(a, b)
    /\ dirs = {InDir, <<"in", "sub">>, EmptyDir, <<"empty", "sub">>, <<"out">>}
    /\ heap = <<>>
    /\ arg = 0
    /\ gdf = 0
    /\ elevations = <<>>
    /\ new_geoms = <<>>
    /\ updated = 0
    /\ D = [crs |-> Undefined, recs |-> <<>>]
    /\ pc = "idle"
    /\ exc = "none"
    /\ folder = <<>>
    /\ listing = <<>>
    /\ idx = 0
    /\ shp_path = NoPath
    /\ out_dir = <<>>
    /\ top = "none"
    /\ log = <<>>
    /\ calls = 0
    /\ prev = NoCall

NextDriver ==
    \/ \E f \in {InDir, EmptyDir, MissingDir}, out \in OutDirs : CallProcessFolder(f, out)
    \/ \E path \in InputPaths, out \in OutDirs : CallProcessShapefile(path, out)
    \/ PfLoop
    \/ PsRead
    \/ UzEnsureSameCrs
    \/ UzSample
    \/ UzRewrite
    \/ UzCopyAssign
    \/ PsExportShp
    \/ PsExportGeojson
    \/ PsReturn
    \/ Propagate

SpecDriver == InitDriver /\ [][NextDriver]_vars

(* ------------------ properties of update_z_values ---------------------- *)
Returned == pc = "uz_returned"
\* record i of the input as the sampler sees it: in the DEM's CRS
Reconciled(i) == IF D.crs = dem.crs THEN D.recs[i].geom
                 ELSE ToCrsGeom(D.recs[i].geom, D.crs, dem.crs)
Out == heap[updated]

C2_XYOfInput ==
    Returned =>
        \A i \in DOMAIN D.recs :
            elevations[i].fin =>
                /\ Out.recs[i].geom.hasZ
                /\ Out.recs[i].geom.x = D.recs[i].geom.x
                /\ Out.recs[i].geom.y = D.recs[i].geom.y
                /\ Out.recs[i].geom.z = elevations[i].val
\* C2 amended: a finite sample gives a 3D point whose x and y are those of
\* the point in the DEM's CRS (the input's x and y when the CRSs are equal,
\* the reprojected ones otherwise) and whose z is the sampled value, for 2D
\* and for 3D input points.
C2_XYOfReconciled ==
    Returned =>
        \A i \in DOMAIN D.recs :
            elevations[i].fin =>
                /\ Out.recs[i].geom.hasZ
                /\ Out.recs[i].geom.x = Reconciled(i).x
                /\ Out.recs[i].geom.y = Reconciled(i).y
                /\ Out.recs[i].geom.z = elevations[i].val
                /\ (D.crs = dem.crs =>
                       /\ Out.recs[i].geom.x = D.recs[i].geom.x
                       /\ Out.recs[i].geom.y = D.recs[i].geom.y)
C2_Witness ==
    /\ Returned
    /\ D.crs # dem.crs
    /\ \E i \in DOMAIN D.recs :
          /\ elevations[i].fin
          /\ <<Reconciled(i).x, Reconciled(i).y>> \in DOMAIN dem.cells
          /\ Reconciled(i).x # Reconciled(i).y
          /\ D.recs[i].geom.hasZ

\* C3 as stated: a non-finite sample leaves the INPUT geometry, which is 2D.
C3_InputGeomStays2D ==
    Returned =>
        \A i \in DOMAIN D.recs :
            ~elevations[i].fin =>
                /\ Out.recs[i].geom = D.recs[i].geom
                /\ ~Out.recs[i].geom.hasZ
\* C3 amended: a non-finite sample leaves the point's geometry in the DEM's
\* CRS exactly as it is (the input geometry when the CRSs are equal, its
\* reprojection otherwise): nothing is attached to a 2D point and a 3D input
\* point keeps its own z.
C3_ReconciledGeomKept ==
    Returned =>
        \A i \in DOMAIN D.recs :
            ~elevations[i].fin =>
                /\ Out.recs[i].geom = Reconciled(i)
                /\ Out.recs[i].geom.hasZ = D.recs[i].geom.hasZ
                /\ (D.crs = dem.crs => Out.recs[i].geom = D.recs[i].geom)
C3_Witness ==
    /\ Returned
    /\ \E i, j \in DOMAIN D.recs :
          /\ ~elevations[i].fin
          /\ D.recs[i].geom.hasZ
          /\ elevations[j].fin

\* C4: update_z_values never changes the dataset object it was given, the
\* result is another object, and the DEM handle is never changed.
C4_InputUntouched ==
    /\ [](/\ heap[arg] = D
          /\ (Returned => updated # arg /\ updated \in DOMAIN heap))
    /\ [][dem' = dem]_vars
C4_Witness ==
    /\ Returned
    /\ D.crs = dem.crs
    /\ Out # D

\* C5 as stated: the reconciler passes the dataset through when the CRSs are
\* equal, reprojects it to the DEM's CRS in every other case, and never fails.
C5_NeverFails ==
    /\ pc # "raised"
    /\ pc = "uz_sample" =>
          IF D.crs = dem.crs THEN gdf = arg
          ELSE heap[gdf] = ToCrs(D, dem.crs)
\* C5 amended: the reconciler returns the very object it was given, with no
\* reprojection, exactly when the CRSs are equal (both undefined included);
\* when they differ and both are defined it returns a new dataset with every
\* geometry reprojected to the DEM's CRS; when they differ and one of them is
\* undefined the reprojection raises and nothing is sampled.
C5_ReconcileOrRaise ==
    /\ pc = "uz_sample" =>
          /\ (gdf = arg) = (D.crs = dem.crs)
          /\ D.crs = dem.crs => Len(heap) = 1
          /\ D.crs # dem.crs =>
                /\ D.crs # Undefined /\ dem.crs # Undefined
                /\ heap[gdf].crs = dem.crs
                /\ Len(heap[gdf].recs) = Len(D.recs)
                /\ \A i \in DOMAIN D.recs :
                      /\ heap[gdf].recs[i].geom = ToCrsGeom(D.recs[i].geom, D.crs, dem.crs)
                      /\ heap[gdf].recs[i].attr = D.recs[i].attr
    /\ pc = "raised" =>
          /\ D.crs # dem.crs
          /\ D.crs = Undefined \/ dem.crs = Undefined
          /\ elevations = <<>> /\ updated = 0
    /\ (D.crs # dem.crs /\ (D.crs = Undefined \/ dem.crs = Undefined)) =>
          pc \in {"uz_ensure", "raised"}
C5_Witness ==
    /\ pc = "uz_sample"
    /\ D.crs # dem.crs
    /\ Len(D.recs) = 2
    /\ heap[gdf] # D

(* ----------------------- properties of the drivers --------------------- *)
Last(q) == q[Len(q)]
IsProcessing(l) == l.msg = "Processing"
\* the files process_shapefile was entered for by the call in progress
Processed == SelectSeq(log, IsProcessing)
InFolderCall == top = "folder" /\ exc # "listdir"
ReturnedFailure == pc = "idle" /\ ~prev.ok
ShpWritten == Last(log).msg = "3D Shapefile exported"

\* C6: in process_shapefile the shapefile is exported before the GeoJSON, a
\* failure reaches the caller with nothing cleaned up (a shapefile written
\* before the GeoJSON export failed stays), and a failure before the exports
\* leaves no output written.
C6_ShpFirstNoCleanup ==
    /\ [](/\ \A i \in DOMAIN log :
                log[i].msg = "GeoJSON exported" =>
                    /\ i > 1
                    /\ log[i - 1].msg = "3D Shapefile exported"
                    /\ log[i - 1].path.dir = log[i].path.dir
          /\ pc = "ps_geojson" =>
                /\ ShpOut(shp_path, out_dir) \in DOMAIN files
                /\ files[ShpOut(shp_path, out_dir)] = VectorFile("ESRI Shapefile", heap[updated])
          /\ (pc = "raised" /\ top # "update" /\ exc # "listdir" /\ ShpWritten) =>
                /\ ShpOut(shp_path, out_dir) \in DOMAIN files
                /\ files[ShpOut(shp_path, out_dir)] = VectorFile("ESRI Shapefile", heap[updated])
          /\ (pc = "raised" /\ (exc = "read_file" \/ (exc = "to_crs" /\ updated = 0))) =>
                Last(log).msg \in {"Processing", "CRS mismatch"})
    /\ [][/\ files' # files => pc \in {"uz_returned", "ps_geojson"}
          /\ (pc = "uz_returned" /\ files' # files) =>
                \A p \in DOMAIN files' : p # ShpOut(shp_path, out_dir) =>
                    p \in DOMAIN files /\ files'[p] = files[p]
          /\ pc = "raised" =>
                /\ pc' = "idle"
                /\ ~prev'.ok
                /\ files' = files
                /\ dirs' = dirs]_vars
C6_Witness ==
    /\ ReturnedFailure
    /\ prev.op = "file"
    /\ ShpWritten
    /\ ShpOut(prev.path, prev.out) \in DOMAIN files
    /\ JsonOut(prev.path, prev.out) \notin DOMAIN files

\* C7: process_folder enters process_shapefile for the listed files one at a
\* time in listing order, and the first failure ends the call: no later file
\* is read, what was written stays, and the caller gets the failure.
C7_FirstFailureHalts ==
    /\ [](InFolderCall =>
            /\ \A k \in DOMAIN Processed : Processed[k].path = Join(folder, listing[k])
            /\ Len(Processed) = IF pc \in {"pf_loop", "ps_read"} \/ (pc = "idle" /\ prev.ok)
                                THEN idx - 1 ELSE idx
            /\ \A k \in 1..(idx - 1) :
                  /\ ShpOut(Join(folder, listing[k]), out_dir) \in DOMAIN files
                  /\ JsonOut(Join(folder, listing[k]), out_dir) \in DOMAIN files
            /\ (pc = "raised" \/ ReturnedFailure) =>
                  /\ idx \in DOMAIN listing
                  /\ Len(Processed) = idx
                  /\ Last(Processed).path = Join(folder, listing[idx]))
    /\ [][(pc = "raised" /\ top = "folder") =>
             /\ pc' = "idle"
             /\ prev' = [op |-> "folder", path |-> Join(folder, <<>>), out |-> out_dir, ok |-> FALSE]
             /\ files' = files
             /\ dirs' = dirs
             /\ log' = log
             /\ idx' = idx]_vars
C7_Witness ==
    /\ ReturnedFailure
    /\ top = "folder"
    /\ Len(listing) = 2
    /\ idx = 1
    /\ ShpWritten
    /\ Len(Processed) = 1

\* C8: a process_shapefile call that repeats the call that last succeeded
\* (same file, same output directory, same DEM) changes nothing on disk: it
\* rewrites the two output files with what they hold and adds no file.
C8_SecondRunChangesNothing ==
    [][(/\ prev.op = "file"
        /\ prev.ok
        /\ top = "file"
        /\ pc # "idle"
        /\ shp_path = prev.path
        /\ out_dir = prev.out) => (files' = files /\ dirs' = dirs)]_vars
C8_Witness ==
    /\ pc = "ps_done"
    /\ top = "file"
    /\ prev.op = "file"
    /\ prev.ok
    /\ shp_path = prev.path
    /\ out_dir = prev.out
    /\ Len(heap[updated].recs) > 0
    /\ JsonOut(shp_path, out_dir) \in DOMAIN files

\* the name's last four characters are ".shp" in any mix of cases
ShpAnyCase(n) ==
    /\ Len(n) >= 4
    /\ n[Len(n) - 3] = "."
    /\ n[Len(n) - 2] \in {"s", "S"}
    /\ n[Len(n) - 1] \in {"h", "H"}
    /\ n[Len(n)] \in {"p", "P"}
\* C9: process_folder lists exactly the names directly inside the folder that
\* end in ".shp" in any case, and logs how many; with none it enters
\* process_shapefile for no file, writes nothing and returns normally.
C9_ListingAndEmptyFolder ==
    /\ [](/\ (InFolderCall /\ pc = "pf_loop" /\ idx = 1) =>
                /\ {listing[i] : i \in DOMAIN listing}
                      = {n \in ListDir(dirs, files, folder) : ShpAnyCase(n)}
                /\ \A i, j \in DOMAIN listing : listing[i] = listing[j] => i = j
                /\ log = <<LogLine("Found", Len(listing), NoPath)>>
          /\ (InFolderCall /\ listing = <<>>) =>
                /\ log = <<LogLine("Found", 0, NoPath)>>
                /\ pc \in {"pf_loop", "idle"}
                /\ pc = "idle" => prev.ok)
    /\ [][(InFolderCall /\ pc = "pf_loop" /\ listing = <<>>) =>
             /\ pc' = "idle"
             /\ prev'.ok
             /\ prev'.op = "folder"
             /\ files' = files
             /\ dirs' = dirs
             /\ log' = log]_vars
C9_Witness ==
    /\ pc = "idle"
    /\ top = "folder"
    /\ prev.ok
    /\ listing = <<>>
    /\ log = <<LogLine("Found", 0, NoPath)>>
    /\ Cardinality(ListDir(dirs, files, folder)) = 3

\* C10: export_shp and export_geojson get past their directory step for
\* every output path, one with no directory part included.
C10_DirectoryStepNeverFails ==
    /\ exc # "makedirs"
    /\ pc \in {"ps_geojson", "ps_done"} =>
          (Dirname(ShpOut(shp_path, out_dir)) = <<>> \/ Dirname(ShpOut(shp_path, out_dir)) \in dirs)

====
